---- MODULE Spec2Model ----
(***************************************************************************)
(* Model of the hockey team statistics scraper (main.py) and of the        *)
(* post-processing pipeline (data_processor.py).                           *)
(*                                                                         *)
(* The scraper is a call stack of scrape_and_write_stats frames driven by  *)
(* the __main__ block; the web site is the environment, and every fetch    *)
(* draws the server's answer (exception, status, body) from a small set.   *)
(* Text is a sequence of ASCII character codes.                            *)
(***************************************************************************)
EXTENDS Integers, Sequences, FiniteSets, TLC

\* ---------------------------------------------------------------- bounds
MaxPages == 3
MaxRows == 2
MaxDfRows == 2
MaxClock == 1
\* The number of nested scrape_and_write_stats calls the interpreter's stack
\* holds: CPython's recursion limit (1000 frames by default, never raised by
\* the program) scaled to the model.  The site has more pages than this.
RecursionLimit == 2

\* ------------------------------------------------------------- constants
\* Python's None: an optional value is a sequence of at most one element.
None == <<>>
Some(x) == <<x>>
\* What css_first gives for an absent td (no text at all).
NoCell == <<-1>>
NoMiss == "none"
NoExc == "none"
\* ASCII: the space, the line feed, the digits, the full stop and the letter A
WS == 32
LF == 10
\* The characters str.strip() removes: \t \n \x0b \x0c \r, \x1c-\x1f and the space
Whitespace == (9..13) \cup (28..32)
Digit(d) == 48 + d
Dot == 46
LetterA == 65
ROOT_URL == "https://www.scrapethissite.com/"
START_PAGE_NUM == 1
COLUMN_NAMES ==
  <<"team_name", "year", "wins", "losses", "ot_losses", "win_pct",
    "goals_for", "goals_against", "goals_diff", "scrape_timestamp">>
FieldSet == {COLUMN_NAMES[k] : k \in DOMAIN COLUMN_NAMES}
\* The text of a column name: one lower-case letter per column.
NameText(f) == <<LetterA + 32 + (CHOOSE k \in DOMAIN COLUMN_NAMES : COLUMN_NAMES[k] = f)>>
\* td classes read by fetch_hockey_stats, in the order of the Hockey fields
Cells == <<"name", "year", "wins", "losses", "ot-losses", "pct", "gf", "ga", "diff">>
CellSet == {Cells[k] : k \in DOMAIN Cells}
NetErrors == {"ConnectError", "ReadTimeout"}
StatusCodes == {200, 503}

\* ------------------------------------------------------------- the site
\* The href of the Next link of page p, and the page a URL addresses.
Href(p) == [page_num |-> p]
urljoin(root, href) == [root |-> root, page_num |-> href.page_num]
START_PAGE_URL == urljoin(ROOT_URL, Href(START_PAGE_NUM))
PageOf(url) == url.page_num

\* Cell text of row i of page p, padded with line feeds and spaces as the
\* site's markup is. The site has no overtime losses for the first row of a
\* page: its ot-losses cell is blank.
CellText(p, i, k) ==
  IF i = 1 /\ Cells[k] = "ot-losses" THEN <<LF, WS>>
  ELSE <<LF, WS, Digit(p), WS, Digit(i), Digit(k), LF, WS>>

\* One <tr class="team">: td class -> text, NoCell where the td is absent.
HtmlRow(p, i, miss) ==
  [c \in CellSet |->
     LET k == CHOOSE j \in DOMAIN Cells : Cells[j] = c
     IN IF c = miss THEN NoCell ELSE CellText(p, i, k)]

\* The listing page p as the server renders it: n team rows, row number bad
\* (0: none) lacking the td miss, and a Next link when hasNext.
PageBody(p, n, bad, miss, hasNext) ==
  [rows |-> [i \in 1..n |-> HtmlRow(p, i, IF i = bad THEN miss ELSE NoMiss)],
   next |-> IF hasNext THEN Some(Href(p + 1)) ELSE None]

\* The body of a non-2xx response: no team row and no pagination.
ErrorBody == [rows |-> <<>>, next |-> None]

\* What the server may answer to a GET of page p, cut to a site of at most
\* MaxPages pages of at most MaxRows rows: a 200 with the listing (n rows, row
\* bad lacking td miss, a Next link or none), or an error status.
Served(p) ==
  {[status |-> 200, n |-> n, bad |-> 0, miss |-> NoMiss, hasNext |-> hasNext] :
      n \in 0..MaxRows, hasNext \in {h \in BOOLEAN : h => p < MaxPages}}
  \cup {[status |-> 200, n |-> nb[1], bad |-> nb[2], miss |-> miss, hasNext |-> hasNext] :
      nb \in {x \in (1..MaxRows) \X (1..MaxRows) : x[2] <= x[1]}, miss \in CellSet,
      hasNext \in {h \in BOOLEAN : h => p < MaxPages}}
  \cup {[status |-> st, n |-> 0, bad |-> 0, miss |-> NoMiss, hasNext |-> FALSE] :
      st \in StatusCodes \ {200}}

\* response.text of the answer r to a GET of page p
ResponseText(p, r) ==
  IF r.status = 200 THEN PageBody(p, r.n, r.bad, r.miss, r.hasNext) ELSE ErrorBody

\* ------------------------------------------------------- pure functions
IsWS(ch) == ch \in Whitespace

RECURSIVE lstrip(_)
lstrip(s) == IF s # <<>> /\ IsWS(Head(s)) THEN lstrip(Tail(s)) ELSE s

RECURSIVE rstrip(_)
rstrip(s) ==
  IF s # <<>> /\ IsWS(s[Len(s)]) THEN rstrip(SubSeq(s, 1, Len(s) - 1)) ELSE s

\* str.strip()
strip(s) == rstrip(lstrip(s))

\* row.css_first("td.<c>") is None
CellMissing(row, c) == row[c] = NoCell

\* A row for which Hockey(...) raises AttributeError (None.text()).
RowRaisesNever(row) == FALSE
RowRaises(row) == \E c \in CellSet : CellMissing(row, c)

\* row.css_first("td.<c>").text().strip(); NoCell where there is no text.
Text(row, c) == IF CellMissing(row, c) THEN NoCell ELSE strip(row[c])

\* datetime.now().strftime("%Y-%m-%d %H:%M:%S") when the clock reads second t
Timestamp(t) == <<Digit(t)>>

\* What successive calls of datetime.now() may read, n calls from second t0
\* on: any readings that do not go back, cut at second MaxClock.
Readings(n, t0) ==
  {ts \in [1..n -> t0..MaxClock] : \A i \in 1..n : \A j \in 1..n : i <= j => ts[i] <= ts[j]}
LastReading(ts, t0) == IF ts = <<>> THEN t0 ELSE ts[Len(ts)]

\* Hockey(...) and asdict() for one row.
TeamStats(row, t) ==
  [f \in FieldSet |->
     IF f = "scrape_timestamp" THEN Timestamp(t)
     ELSE LET k == CHOOSE j \in DOMAIN Cells : COLUMN_NAMES[j] = f
          IN Text(row, Cells[k])]

\* The list fetch_hockey_stats returns for a body whose rows all parse, row
\* i built when the clock reads ts[i].
HockeyStats(body, ts) == [i \in DOMAIN body.rows |-> TeamStats(body.rows[i], ts[i])]

\* The value of the except branch of scrape_and_write_stats.
ErrorMessageOther(url, e) ==
  [text |-> "HTTP error occurred while fetching", url |-> START_PAGE_URL, error |-> e]
ErrorMessage(url, e) ==
  [text |-> "HTTP error occurred while fetching", url |-> url, error |-> e]

\* open(path, mode='w') on a file holding old
openAppend(old) == old
openW(old) == <<>>

\* csv_writer.writeheader() on a file holding f: the row {name: name}
writeheader(f) == Append(f, [c \in FieldSet |-> NameText(c)])

\* csv_object.writerows(rows) on a file holding f
writerows(f, rows) == f \o rows

\* ----------------------------------------------------------------- state
VARIABLES
  mainpc,    \* position of the __main__ block
  file,      \* rows of ./data/raw/hockey_teams_raw.csv
  handle,    \* the file object f: "none", "open", "closed"
  stack,     \* active scrape_and_write_stats calls, outermost first
  retval,    \* value returned by the call that returned last
  exc,       \* the exception that ended the process, or NoExc
  stdout,    \* lines printed
  log,       \* history: fetches and writes in the order they happened
  messages,  \* history: values built by the except branch
  clock,     \* the second datetime.now() read last
  dp_pc,     \* position of data_processor.py
  df,        \* hockey_df as the pipeline builds it
  report,    \* ./reports/data_profiling_report.html written
  cleaned    \* rows of ./data/processed/hockey_team_stats.csv

dpvars == <<dp_pc, df, report, cleaned>>
vars == <<mainpc, file, handle, stack, retval, exc, stdout, log, messages, clock, dpvars>>

\* A row a previous run left in the file (written in second 0).
OldRow == [f \in FieldSet |-> IF f = "scrape_timestamp" THEN Timestamp(0) ELSE <<Digit(9)>>]
PreviousFiles == {<<>>, writeheader(<<>>), writerows(writeheader(<<>>), <<OldRow>>)}

\* hockey_df before the pipeline has run
EmptyFrame == [columns |-> <<>>, dtypes |-> <<>>, rows |-> <<>>]

Frame(url) ==
  [url |-> url, pc |-> "fetch", hockey_team_stats |-> <<>>, next_page_url |-> None]

Top == stack[Len(stack)]
Push(fr) == Append(stack, fr)
Pop == SubSeq(stack, 1, Len(stack) - 1)
SetTop(fr) == [stack EXCEPT ![Len(stack)] = fr]

Init ==
  /\ mainpc = "start"
  /\ file \in PreviousFiles
  /\ handle = "none"
  /\ stack = <<>>
  /\ retval = None
  /\ exc = NoExc
  /\ stdout = <<>>
  /\ log = <<>>
  /\ messages = <<>>
  /\ clock = 0
  /\ dp_pc = "idle"
  /\ df = EmptyFrame
  /\ report = FALSE
  /\ cleaned = <<>>

\* ------------------------------------------------------------- __main__
\* os.makedirs(...); with open(output_file_path, mode='w', ...) as f
MainOpen ==
  /\ mainpc = "start"
  /\ mainpc' = "opened"
  /\ file' = openW(file)
  /\ handle' = "open"
  /\ UNCHANGED <<stack, retval, exc, stdout, log, messages, clock, dpvars>>

\* csv_writer = DictWriter(f, fieldnames=COLUMN_NAMES); csv_writer.writeheader()
MainWriteHeader ==
  /\ mainpc = "opened"
  /\ mainpc' = "header"
  /\ file' = writeheader(file)
  /\ UNCHANGED <<handle, stack, retval, exc, stdout, log, messages, clock, dpvars>>

\* print("Scraping in Progress..."); scrape_and_write_stats(START_PAGE_URL, csv_writer)
MainCall ==
  /\ mainpc = "header"
  /\ mainpc' = "scraping"
  /\ stdout' = Append(stdout, "Scraping in Progress...")
  /\ stack' = Push(Frame(START_PAGE_URL))
  /\ UNCHANGED <<file, handle, retval, exc, log, messages, clock, dpvars>>

\* The call returned: its value is dropped, the summary printed, the with
\* block left.
MainFinish ==
  /\ mainpc = "scraping"
  /\ stack = <<>>
  /\ mainpc' = "exited"
  /\ stdout' = stdout \o <<"Scraping Completed...", "Times Elapsed in Scraping">>
  /\ handle' = "closed"
  /\ UNCHANGED <<file, stack, retval, exc, log, messages, clock, dpvars>>

\* ------------------------------------------------ scrape_and_write_stats
\* History records: a fetch with the answer it got, or a write.
Event(op, p, outcome, r, ts) ==
  [op |-> op, page |-> p, outcome |-> outcome, status |-> r.status, n |-> r.n,
   bad |-> r.bad, miss |-> r.miss, hasNext |-> r.hasNext, ts |-> ts]
NoResponse ==
  [status |-> 0, n |-> 0, bad |-> 0, miss |-> NoMiss, hasNext |-> FALSE]
\* The part of an answer fetch_hockey_stats reads (the history keeps which row
\* lacks a td, not which td), and the part get_next_page_url reads.
RowsOnly(r) == [r EXCEPT !.hasNext = FALSE, !.miss = NoMiss]
LinkOnly(r) == [r EXCEPT !.n = 0, !.bad = 0, !.miss = NoMiss]

Running == mainpc = "scraping" /\ stack # <<>>

\* fetch_hockey_stats(page_url=start_page_url) returns the list of records,
\* each stamped with its own reading of the clock.
FetchStatsReturn ==
  /\ Running /\ Top.pc = "fetch"
  /\ \E r \in Served(PageOf(Top.url)) :
       LET parsed_html == ResponseText(PageOf(Top.url), r) IN
       /\ ~\E i \in DOMAIN parsed_html.rows : RowRaises(parsed_html.rows[i])
       /\ \E ts \in Readings(Len(parsed_html.rows), clock) :
            /\ stack' = SetTop([Top EXCEPT !.pc = "next",
                                 !.hockey_team_stats = HockeyStats(parsed_html, ts)])
            /\ clock' = LastReading(ts, clock)
            /\ log' = Append(log, Event("content", PageOf(Top.url), "ok", RowsOnly(r), ts))
  /\ UNCHANGED <<mainpc, file, handle, retval, exc, stdout, messages, dpvars>>

\* A row lacks a td: None.text() raises AttributeError, which no frame
\* catches; it leaves every call and the with block, and ends the process.
\* The rows before it were built (and read the clock) and are lost.
FetchStatsAttributeError ==
  /\ Running /\ Top.pc = "fetch"
  /\ \E r \in Served(PageOf(Top.url)) :
       LET parsed_html == ResponseText(PageOf(Top.url), r) IN
       /\ \E i \in DOMAIN parsed_html.rows : RowRaises(parsed_html.rows[i])
       /\ \E ts \in Readings(r.bad - 1, clock) : clock' = LastReading(ts, clock)
       /\ log' = Append(log, Event("content", PageOf(Top.url), "fault", RowsOnly(r), <<>>))
  /\ stack' = <<>>
  /\ exc' = "AttributeError"
  /\ handle' = "closed"
  /\ mainpc' = "exited"
  /\ UNCHANGED <<file, retval, stdout, messages, dpvars>>

\* httpx.get raises in fetch_hockey_stats: the except branch returns the message.
FetchStatsHTTPError ==
  /\ Running /\ Top.pc = "fetch"
  /\ \E e \in NetErrors :
       /\ retval' = Some(ErrorMessage(Top.url, e))
       /\ messages' = Append(messages, ErrorMessage(Top.url, e))
  /\ log' = Append(log, Event("content", PageOf(Top.url), "raise", NoResponse, <<>>))
  /\ stack' = Pop
  /\ UNCHANGED <<mainpc, file, handle, exc, stdout, clock, dpvars>>

\* get_next_page_url: the Next link resolved against ROOT_URL, or None when
\* css_first finds no such link (AttributeError caught).
NextPageUrl(body) ==
  IF body.next = None THEN None ELSE Some(urljoin(ROOT_URL, body.next[1]))

GetNextPageUrlReturn ==
  /\ Running /\ Top.pc = "next"
  /\ \E r \in Served(PageOf(Top.url)) :
       /\ stack' = SetTop([Top EXCEPT !.pc = "write",
                 !.next_page_url = NextPageUrl(ResponseText(PageOf(Top.url), r))])
       /\ log' = Append(log, Event("pagination", PageOf(Top.url), "ok", LinkOnly(r), <<>>))
  /\ UNCHANGED <<mainpc, file, handle, retval, exc, stdout, messages, clock, dpvars>>

\* (variant: the records are written before the pagination fetch)
GetNextPageUrlHTTPErrorAfterWrite ==
  /\ Running /\ Top.pc = "next"
  /\ \E e \in NetErrors :
       /\ retval' = Some(ErrorMessage(Top.url, e))
       /\ messages' = Append(messages, ErrorMessage(Top.url, e))
  /\ log' = Append(log, Event("pagination", PageOf(Top.url), "raise", NoResponse, <<>>))
  /\ file' = writerows(file, Top.hockey_team_stats)
  /\ stack' = Pop
  /\ UNCHANGED <<mainpc, handle, exc, stdout, clock, dpvars>>

\* httpx.get raises in get_next_page_url: the records fetched are dropped.
GetNextPageUrlHTTPError ==
  /\ Running /\ Top.pc = "next"
  /\ \E e \in NetErrors :
       /\ retval' = Some(ErrorMessage(Top.url, e))
       /\ messages' = Append(messages, ErrorMessage(Top.url, e))
  /\ log' = Append(log, Event("pagination", PageOf(Top.url), "raise", NoResponse, <<>>))
  /\ stack' = Pop
  /\ UNCHANGED <<mainpc, file, handle, exc, stdout, clock, dpvars>>

\* (variant: the recursive call made before the records are written)
RecurseBeforeWrite ==
  /\ Running /\ Top.pc = "write"
  /\ Top.next_page_url # None => Len(stack) < RecursionLimit
  /\ IF Top.next_page_url = None
       THEN /\ file' = writerows(file, Top.hockey_team_stats)
            /\ log' = Append(log, Event("write", PageOf(Top.url), "ok", NoResponse, <<>>))
            /\ stack' = Pop
            /\ retval' = None
       ELSE /\ stack' = Append(SetTop([Top EXCEPT !.pc = "call"]),
                               Frame(Top.next_page_url[1]))
            /\ UNCHANGED <<file, log, retval>>
  /\ UNCHANGED <<mainpc, handle, exc, stdout, messages, clock, dpvars>>

\* csv_object.writerows(hockey_team_stats), then the recursive call when there
\* is a next page and the interpreter's stack has room for one more call, else
\* the implicit return None.
WriteAndRecurse ==
  /\ Running /\ Top.pc = "write"
  /\ Top.next_page_url # None => Len(stack) < RecursionLimit
  /\ file' = writerows(file, Top.hockey_team_stats)
  /\ log' = Append(log, Event("write", PageOf(Top.url), "ok", NoResponse, <<>>))
  /\ IF Top.next_page_url = None
       THEN /\ stack' = Pop
            /\ retval' = None
       ELSE /\ stack' = Append(SetTop([Top EXCEPT !.pc = "call"]),
                               Frame(Top.next_page_url[1]))
            /\ UNCHANGED retval
  /\ UNCHANGED <<mainpc, handle, exc, stdout, messages, clock, dpvars>>

\* csv_object.writerows(hockey_team_stats), then the recursive call with the
\* interpreter's stack exhausted: RecursionError, which is no httpx.HTTPError
\* and which nothing catches.  It unwinds every active call and the with
\* block, which closes the file, and the program exits with the traceback;
\* the page behind the Next link is never fetched.
WriteAndRecursionError ==
  /\ Running /\ Top.pc = "write"
  /\ Top.next_page_url # None /\ Len(stack) >= RecursionLimit
  /\ file' = writerows(file, Top.hockey_team_stats)
  /\ log' = Append(log, Event("write", PageOf(Top.url), "ok", NoResponse, <<>>))
  /\ stack' = <<>>
  /\ exc' = "RecursionError"
  /\ handle' = "closed"
  /\ mainpc' = "exited"
  /\ UNCHANGED <<retval, stdout, messages, clock, dpvars>>

\* The recursive call returned: its value is dropped and the caller falls
\* off the end of the function, returning None.
ReturnFromRecursion ==
  /\ Running /\ Top.pc = "call"
  /\ stack' = Pop
  /\ retval' = None
  /\ UNCHANGED <<mainpc, file, handle, exc, stdout, log, messages, clock, dpvars>>

Next ==
  \/ MainOpen
  \/ MainWriteHeader
  \/ MainCall
  \/ MainFinish
  \/ FetchStatsReturn
  \/ FetchStatsAttributeError
  \/ FetchStatsHTTPError
  \/ GetNextPageUrlReturn
  \/ GetNextPageUrlHTTPError
  \/ WriteAndRecurse
  \/ WriteAndRecursionError
  \/ ReturnFromRecursion

Spec == Init /\ [][Next]_vars

\* ------------------------------------------------------ data_processor
\* A DataFrame cell: NaN, an int, a float (in tenths) or a str.
NaN == [t |-> "nan", num |-> 0, text |-> <<>>]
IntV(n) == [t |-> "int", num |-> n, text |-> <<>>]
FloatV(tenths) == [t |-> "float", num |-> tenths, text |-> <<>>]
StrV(s) == [t |-> "str", num |-> 0, text |-> s]

IsDigits(s) == s # <<>> /\ \A i \in DOMAIN s : s[i] \in Digit(0)..Digit(9)
IsFloatText(s) ==
  /\ Len(s) >= 3 /\ s[Len(s) - 1] = Dot
  /\ IsDigits(SubSeq(s, 1, Len(s) - 2)) /\ IsDigits(<<s[Len(s)]>>)

RECURSIVE ParseInt(_)
ParseInt(s) ==
  IF s = <<>> THEN 0
  ELSE ParseInt(SubSeq(s, 1, Len(s) - 1)) * 10 + (s[Len(s)] - Digit(0))
ParseFloat(s) == ParseInt(SubSeq(s, 1, Len(s) - 2)) * 10 + (s[Len(s)] - Digit(0))

RECURSIVE IntText(_)
IntText(n) == IF n < 10 THEN <<Digit(n)>> ELSE Append(IntText(n \div 10), Digit(n % 10))
FloatText(tenths) == IntText(tenths \div 10) \o <<Dot>> \o IntText(tenths % 10)

\* The dtype read_csv infers for a column from the texts of its cells.
InferDtype(texts) ==
  LET full == {i \in DOMAIN texts : texts[i] # <<>>} IN
  IF texts = <<>> THEN "object"
  ELSE IF \A i \in full : IsDigits(texts[i])
    THEN IF full = DOMAIN texts THEN "int64" ELSE "float64"
  ELSE IF \A i \in full : IsDigits(texts[i]) \/ IsFloatText(texts[i]) THEN "float64"
  ELSE "object"

\* The value read_csv gives a cell of a column of that dtype (empty: NaN).
ParseCell(dtype, s) ==
  IF s = <<>> THEN NaN
  ELSE IF dtype = "int64" THEN IntV(ParseInt(s))
  ELSE IF dtype = "float64"
    THEN IF IsDigits(s) THEN FloatV(ParseInt(s) * 10) ELSE FloatV(ParseFloat(s))
  ELSE StrV(s)

\* pd.read_csv(FILE_PATH, index_col=False) of a file of a header and data rows
read_csv(f) ==
  LET data == SubSeq(f, 2, Len(f))
      dt == [c \in FieldSet |-> InferDtype([i \in DOMAIN data |-> data[i][c]])]
  IN [columns |-> COLUMN_NAMES, dtypes |-> dt,
      rows |-> [i \in DOMAIN data |-> [c \in FieldSet |-> ParseCell(dt[c], data[i][c])]]]

\* x.drop(columns=[...])
drop(x, cols) ==
  LET keep == {x.columns[k] : k \in DOMAIN x.columns} \ cols IN
  [columns |-> SelectSeq(x.columns, LAMBDA c : c \notin cols),
   dtypes |-> [c \in keep |-> x.dtypes[c]],
   rows |-> [i \in DOMAIN x.rows |-> [c \in keep |-> x.rows[i][c]]]]

\* The zero fillna(0) puts in a column of that dtype.
Zero(dtype) == IF dtype = "float64" THEN FloatV(0) ELSE IntV(0)

\* x.fillna(0): every NaN of every column of the frame
fillna(x) ==
  [x EXCEPT !.rows =
     [i \in DOMAIN x.rows |->
        [c \in DOMAIN x.rows[i] |->
           IF x.rows[i][c] = NaN THEN Zero(x.dtypes[c]) ELSE x.rows[i][c]]]]

\* The lambda of the second pipe.
FillStep(x) ==
  IF \E k \in DOMAIN x.columns : x.columns[k] = "ot_losses" THEN fillna(x) ELSE x

\* int(v) and str(v) of a cell
AsInt(v) ==
  IF v.t = "float" THEN IntV(v.num \div 10)
  ELSE IF v.t = "str" THEN IntV(ParseInt(v.text))
  ELSE v
AsStr(v) ==
  IF v.t = "int" THEN StrV(IntText(v.num))
  ELSE IF v.t = "float" THEN StrV(FloatText(v.num))
  ELSE IF v.t = "nan" THEN StrV(<<110, 97, 110>>)
  ELSE v

\* x.astype({"ot_losses": int, "year": str})
astype(x) ==
  [x EXCEPT
     !.dtypes = [c \in DOMAIN x.dtypes |->
                   IF c = "ot_losses" THEN "int64"
                   ELSE IF c = "year" THEN "object" ELSE x.dtypes[c]],
     !.rows = [i \in DOMAIN x.rows |->
                 [c \in DOMAIN x.rows[i] |->
                    IF c = "ot_losses" THEN AsInt(x.rows[i][c])
                    ELSE IF c = "year" THEN AsStr(x.rows[i][c])
                    ELSE x.rows[i][c]]]]

\* The text to_csv writes for a cell.
CellCsv(v) ==
  IF v.t = "nan" THEN <<>>
  ELSE IF v.t = "int" THEN IntText(v.num)
  ELSE IF v.t = "float" THEN FloatText(v.num)
  ELSE v.text

\* hockey_df.to_csv(OUTPUT_FILE_PATH, index=False)
to_csv(x) ==
  <<[c \in DOMAIN x.dtypes |-> NameText(c)]>> \o
  [i \in DOMAIN x.rows |-> [c \in DOMAIN x.rows[i] |-> CellCsv(x.rows[i][c])]]

Scraper == <<mainpc, file, handle, stack, retval, exc, stdout, log, messages, clock>>

DPReadCsv ==
  /\ dp_pc = "read"
  /\ df' = read_csv(file)
  /\ dp_pc' = "drop"
  /\ UNCHANGED <<Scraper, report, cleaned>>

DPDropColumns ==
  /\ dp_pc = "drop"
  /\ df' = drop(df, {"scrape_timestamp", "goals_diff"})
  /\ dp_pc' = "fillna"
  /\ UNCHANGED <<Scraper, report, cleaned>>

DPFillNa ==
  /\ dp_pc = "fillna"
  /\ df' = FillStep(df)
  /\ dp_pc' = "astype"
  /\ UNCHANGED <<Scraper, report, cleaned>>

DPAsType ==
  /\ dp_pc = "astype"
  /\ df' = astype(df)
  /\ dp_pc' = "profile"
  /\ UNCHANGED <<Scraper, report, cleaned>>

\* ProfileReport(hockey_df, ...).to_file(...)
DPProfileReport ==
  /\ dp_pc = "profile"
  /\ report' = TRUE
  /\ dp_pc' = "export"
  /\ UNCHANGED <<Scraper, df, cleaned>>

DPToCsv ==
  /\ dp_pc = "export"
  /\ cleaned' = to_csv(df)
  /\ dp_pc' = "done"
  /\ UNCHANGED <<Scraper, df, report>>

\* The raw file the pipeline is run on: a header and 1..MaxDfRows data rows,
\* row r with at most one empty cell.
RawText(f, r) ==
  IF f = "team_name" THEN <<LetterA, Digit(r)>>
  ELSE IF f = "year" THEN <<Digit(1), Digit(9), Digit(9), Digit(r)>>
  ELSE IF f = "win_pct" THEN <<Digit(0), Dot, Digit(r)>>
  ELSE IF f = "scrape_timestamp" THEN <<Digit(2), 45, Digit(r)>>
  ELSE <<Digit(r), Digit(0)>>
RawRow(r, miss) == [f \in FieldSet |-> IF f = miss THEN <<>> ELSE RawText(f, r)]
RawFiles ==
  UNION {{writeheader(<<>>) \o [r \in 1..n |-> RawRow(r, m[r])] :
            m \in [1..n -> FieldSet \cup {NoMiss}]} : n \in 1..MaxDfRows}

DPInit ==
  /\ mainpc = "exited"
  /\ file \in RawFiles
  /\ handle = "closed"
  /\ stack = <<>>
  /\ retval = None
  /\ exc = NoExc
  /\ stdout = <<>>
  /\ log = <<>>
  /\ messages = <<>>
  /\ clock = 0
  /\ dp_pc = "read"
  /\ df = EmptyFrame
  /\ report = FALSE
  /\ cleaned = <<>>

DPNext ==
  \/ DPReadCsv
  \/ DPDropColumns
  \/ DPFillNa
  \/ DPAsType
  \/ DPProfileReport
  \/ DPToCsv

SpecDP == DPInit /\ [][DPNext]_vars

\* ================================================================ claims
Terminated == mainpc = "exited"
HeaderRow == [f \in FieldSet |-> NameText(f)]
UrlOfPage(p) == [root |-> ROOT_URL, page_num |-> p]
IsFetch(ev) == ev.op \in {"content", "pagination"}
NetworkError(ev) == IsFetch(ev) /\ ev.outcome = "raise"
Non2xx(ev) == IsFetch(ev) /\ ev.outcome = "ok" /\ ev.status # 200
\* The page a data row of the file was scraped from (first character of the name).
PageOfRow(row) == row["team_name"][1] - 48
RowsOfPage(p) == {i \in DOMAIN file : i > 1 /\ PageOfRow(file[i]) = p}

\* The record row i of page p must give when scraped in second t: every cell
\* trimmed, nothing else changed.
ExpectedRecord(p, i, t) ==
  [f \in FieldSet |->
     LET k == CHOOSE j \in DOMAIN COLUMN_NAMES : COLUMN_NAMES[j] = f
     IN IF f = "scrape_timestamp" THEN <<48 + t>>
        ELSE IF f = "ot_losses" /\ i = 1 THEN <<>>
        ELSE <<48 + p, 32, 48 + i, 48 + k>>]

\* The records of the pages below page k whose content the first j fetches got.
RECURSIVE ExpectedRows(_, _)
ExpectedRows(j, k) ==
  IF j = 0 THEN <<>>
  ELSE ExpectedRows(j - 1, k) \o
       (IF log[j].op = "content" /\ log[j].outcome = "ok" /\ log[j].page < k
          THEN [i \in 1..log[j].n |-> ExpectedRecord(log[j].page, i, log[j].ts[i])]
          ELSE <<>>)

\* The pages whose content was requested, in request order.
RECURSIVE PagesFetched(_)
PagesFetched(j) ==
  IF j = 0 THEN <<>>
  ELSE PagesFetched(j - 1) \o (IF log[j].op = "content" THEN <<log[j].page>> ELSE <<>>)

\* C1 (as claimed): when a fetch of any page of the run raised a network
\* error, the call on the start URL has returned a message naming the URL of
\* that page by the time the run has ended.
C1_ErrorReachesCaller ==
  Terminated =>
    \A j \in DOMAIN log :
      NetworkError(log[j]) =>
        /\ retval # None
        /\ retval[1].url = UrlOfPage(log[j].page)

\* C2: once a fetch of page k has raised a network error it is the last thing
\* the run did on the network or the file, and the file is the header followed
\* by the records of pages 1..k-1 in page order, from then on.
C2_NoRollbackNoLaterWrite ==
  \A j \in DOMAIN log :
    NetworkError(log[j]) =>
      /\ j = Len(log)
      /\ PagesFetched(j) = [q \in 1..log[j].page |-> q]
      /\ file = <<HeaderRow>> \o ExpectedRows(j, log[j].page)

C2_Witness ==
  /\ Terminated
  /\ \E j \in DOMAIN log : NetworkError(log[j]) /\ log[j].page >= 2
  /\ Len(file) >= 3

\* A run in which every fetch was answered 200 and every row was well formed.
NoFailure ==
  \A j \in DOMAIN log : log[j].outcome = "ok" /\ (IsFetch(log[j]) => log[j].status = 200)
\* The pages 1..n were fetched in order, n being the first page served
\* without a Next link.
LastPageReached ==
  \E j \in DOMAIN log :
    /\ log[j].op = "pagination" /\ ~log[j].hasNext
    /\ PagesFetched(Len(log)) = [q \in 1..log[j].page |-> q]
    /\ \A i \in DOMAIN log : log[i].op = "pagination" /\ log[i].hasNext => i < j

\* C3 (as claimed): a run over a chain of n pages in which every fetch was
\* answered 200 and every row was well formed, once ended, has raised nothing
\* and returned None, has visited the pages 1..n up to the page without a
\* Next link, and has left the file equal to the header followed by the
\* records of pages 1..n in page order, once each -- whatever n is.
C3_ChainScrapedToDone ==
  Terminated /\ NoFailure =>
    /\ exc = NoExc /\ retval = None
    /\ LastPageReached
    /\ file = <<HeaderRow>> \o ExpectedRows(Len(log), MaxPages + 1)

\* C4 (as claimed): a fetch answered with a non-2xx status aborts the run as
\* a network error: when the run has ended, nothing was fetched or written
\* after that fetch and a message naming its URL was built.
C4_Non2xxAborts ==
  Terminated =>
    \A j \in DOMAIN log :
      Non2xx(log[j]) =>
        /\ j = Len(log)
        /\ \E m \in DOMAIN messages : messages[m].url = UrlOfPage(log[j].page)

\* C5: pages are handled one after the other: whatever is done on a page
\* comes after everything done on the pages before it, and before the first
\* fetch of page p + 1 the content fetch, the pagination fetch and the write
\* of page p have happened, in that order.
C5_StrictlySequential ==
  /\ \A i, j \in DOMAIN log : i < j => log[i].page <= log[j].page
  /\ \A j \in DOMAIN log :
       IsFetch(log[j]) /\ log[j].page > START_PAGE_NUM =>
         \E a, b, c \in 1..(j - 1) :
           /\ a < b /\ b < c
           /\ log[a].op = "content" /\ log[a].page = log[j].page - 1
           /\ log[b].op = "pagination" /\ log[b].page = log[j].page - 1
           /\ log[c].op = "write" /\ log[c].page = log[j].page - 1

C5_Witness ==
  /\ Len(stack) = 2 /\ Top.pc = "write"
  /\ \E j \in DOMAIN log : log[j].op = "write" /\ log[j].page = 1

\* C6: from the moment the header is written, and on every way the run ends,
\* the file starts with the header row, holds it nowhere else and holds no
\* row of an earlier run; when the run has ended the file object is closed.
C6_HeaderOnceFileOverwritten ==
  /\ mainpc \in {"header", "scraping", "exited"} =>
       /\ Len(file) >= 1 /\ file[1] = HeaderRow
       /\ \A i \in DOMAIN file : i > 1 => file[i] # HeaderRow /\ file[i] # OldRow
  /\ mainpc = "opened" => file = <<>>
  /\ Terminated => handle = "closed"
  /\ handle = "closed" => Terminated

C6_Witness ==
  /\ Terminated /\ exc = "AttributeError" /\ handle = "closed"
  /\ Len(file) >= 2

\* C7: every data row of the file has the 10 fields, each with a text; and no
\* row of the file comes from a page that was served with a team row lacking
\* a cell.
C7_NoPartialRecord ==
  /\ \A i \in DOMAIN file :
       /\ DOMAIN file[i] = FieldSet
       /\ \A f \in FieldSet : file[i][f] # <<-1>>
  /\ \A j \in DOMAIN log :
       log[j].op = "content" /\ log[j].bad > 0 =>
         /\ RowsOfPage(log[j].page) = {}
         /\ j = Len(log)
         /\ exc = "AttributeError"

C7_Witness ==
  /\ \E j \in DOMAIN log :
       log[j].op = "content" /\ log[j].bad = 2 /\ log[j].page = 2
  /\ RowsOfPage(1) # {}

\* C9 (as claimed): at every point of a run at most one call of
\* scrape_and_write_stats is active, however many pages were visited.
C9_DepthAtMostOne == Len(stack) <= 1

\* C10: when the content fetch of page p succeeded and the pagination fetch
\* of page p raised a network error, no row of page p is in the file and the
\* message built names the URL of page p.
C10_PaginationFailureDropsPage ==
  \A j \in DOMAIN log :
    log[j].op = "pagination" /\ log[j].outcome = "raise" =>
      /\ RowsOfPage(log[j].page) = {}
      /\ file = <<HeaderRow>> \o ExpectedRows(j, log[j].page)
      /\ messages # <<>>
      /\ messages[Len(messages)].url = UrlOfPage(log[j].page)
      /\ Len(messages) = 1

C10_Witness ==
  \E j \in DOMAIN log :
    /\ j > 1
    /\ log[j].op = "pagination" /\ log[j].outcome = "raise" /\ log[j].page = 2
    /\ log[j - 1].op = "content" /\ log[j - 1].n = 2

\* The columns the pipeline keeps, ot_losses aside.
RetainedOther ==
  {"team_name", "year", "wins", "losses", "win_pct", "goals_for", "goals_against"}

\* C8 (as claimed): in the cleaned file a cell of a retained column other
\* than ot_losses is empty wherever it was empty in the raw file.
C8_OnlyOtLossesFilled ==
  dp_pc = "done" =>
    \A i \in DOMAIN file : \A c \in RetainedOther :
      i > 1 /\ file[i][c] = <<>> => cleaned[i][c] = <<>>

====
